---- MODULE Spec2Model ----
(***************************************************************************)
(* The blink sketch of src/main.cpp: setup() (lines 3-11) followed by the  *)
(* endlessly repeated loop() (lines 14-21).  One action per statement; pc  *)
(* names the source line of the statement that runs next.                  *)
(***************************************************************************)
EXTENDS Integers, Sequences, FiniteSets

----------------------------------------------------------------------------
(* Bounds of the model *)

\* Number of loop() iterations whose serial output, pin writes and clock
\* readings are recorded.  Spec stops there; LiveSpec runs on unrecorded.
MaxIter == 10

----------------------------------------------------------------------------
(* Program constants *)

HIGH == 1
LOW == 0
OUTPUT == "OUTPUT"
INPUT == "INPUT"
Baud == 9600
DelayMs == 200
SecondaryPin == 3

\* LED_BUILTIN comes from the board's variant header, not from main.cpp:
\* 13 is the classic AVR value, 3 is the value that makes it the same pin
\* as the one written at main.cpp:10.
BuiltinPins == {3, 13}

Hello == "Hello, World!"
LedOn == "LED is on"
LedOff == "LED is off"

SetupPcs == {"L5", "L6", "L7", "L8", "L9", "L10", "L11"}
LoopPcs == {"L15", "L16", "L17", "L18", "L19", "L20", "L21"}

----------------------------------------------------------------------------
VARIABLES
  LED_BUILTIN,  \* the board's built-in LED pin
  pc,           \* source line of the next statement
  mode,         \* pin -> INPUT | OUTPUT
  level,        \* pin -> LOW | HIGH, the pin's output latch
  baud,         \* 0 until Serial.begin
  serial,       \* lines printed so far (first MaxIter iterations)
  lastLine,     \* the line printed most recently, "" if none
  writes,       \* digitalWrite calls so far: <<pin, value, time>>
  now,          \* milliseconds elapsed, advanced by delay() only
  iter          \* number of loop() calls started

vars == <<LED_BUILTIN, pc, mode, level, baud, serial, lastLine, writes, now, iter>>

UsedPins == {LED_BUILTIN, SecondaryPin}

\* The histories are kept for the first MaxIter iterations of loop().
Recorded == iter <= MaxIter

Init ==
  /\ LED_BUILTIN \in BuiltinPins
  /\ pc = "L5"
  /\ mode = [p \in UsedPins |-> INPUT]
  /\ level \in [UsedPins -> {LOW, HIGH}]
  /\ baud = 0
  /\ serial = <<>>
  /\ lastLine = ""
  /\ writes = <<>>
  /\ now = 0
  /\ iter = 0

----------------------------------------------------------------------------
(* The Arduino calls the sketch makes *)

Goto(from, to) ==
  /\ pc = from
  /\ pc' = to
  /\ UNCHANGED LED_BUILTIN

Serial_begin(b) ==
  /\ baud' = b
  /\ UNCHANGED <<mode, level, serial, lastLine, writes, now>>

Serial_println(s) ==
  /\ serial' = IF Recorded THEN Append(serial, s) ELSE serial
  /\ lastLine' = s
  /\ UNCHANGED <<mode, level, baud, writes, now>>

pinMode(pin, m) ==
  /\ mode' = [mode EXCEPT ![pin] = m]
  /\ UNCHANGED <<level, baud, serial, lastLine, writes, now>>

\* Mutant: the latch takes the inverse of the value written.
digitalWrite_Inverted(pin, val) ==
  /\ level' = [level EXCEPT ![pin] = 1 - val]
  /\ writes' = IF Recorded THEN Append(writes, <<pin, val, now>>) ELSE writes
  /\ UNCHANGED <<mode, baud, serial, lastLine, now>>

digitalWrite(pin, val) ==
  /\ level' = [level EXCEPT ![pin] = val]
  /\ writes' = IF Recorded THEN Append(writes, <<pin, val, now>>) ELSE writes
  /\ UNCHANGED <<mode, baud, serial, lastLine, now>>

delay(ms) ==
  /\ now' = IF Recorded THEN now + ms ELSE now
  /\ UNCHANGED <<mode, level, baud, serial, lastLine, writes>>


----------------------------------------------------------------------------
(* setup(), main.cpp:3-11 *)

SetupSerialBegin ==
  /\ Goto("L5", "L6")
  /\ Serial_begin(Baud)
  /\ UNCHANGED iter

SetupPrintHello ==
  /\ Goto("L6", "L7")
  /\ Serial_println(Hello)
  /\ UNCHANGED iter

\* Mutant: line 7 configures pin 3 instead of LED_BUILTIN.
SetupPinModeBuiltin_WrongPin ==
  /\ Goto("L7", "L8")
  /\ pinMode(SecondaryPin, OUTPUT)
  /\ UNCHANGED iter

SetupPinModeBuiltin ==
  /\ Goto("L7", "L8")
  /\ pinMode(LED_BUILTIN, OUTPUT)
  /\ UNCHANGED iter

SetupWriteBuiltin ==
  /\ Goto("L8", "L9")
  /\ digitalWrite(LED_BUILTIN, 1)
  /\ UNCHANGED iter

SetupPinModeSecondary ==
  /\ Goto("L9", "L10")
  /\ pinMode(SecondaryPin, OUTPUT)
  /\ UNCHANGED iter

SetupWriteSecondary ==
  /\ Goto("L10", "L11")
  /\ digitalWrite(SecondaryPin, 1)
  /\ UNCHANGED iter

\* setup() returns and loop() is called for the first time.
SetupReturn ==
  /\ Goto("L11", "L15")
  /\ iter' = 1
  /\ UNCHANGED <<mode, level, baud, serial, lastLine, writes, now>>

----------------------------------------------------------------------------
(* loop(), main.cpp:14-21 *)

\* Mutant: line 15 prints the greeting.
LoopPrintOn_Greets ==
  /\ Goto("L15", "L16")
  /\ Serial_println(Hello)
  /\ UNCHANGED iter

LoopPrintOn ==
  /\ Goto("L15", "L16")
  /\ Serial_println(LedOn)
  /\ UNCHANGED iter

\* Mutant: line 16 is missing.
LoopWriteHigh_Missing ==
  /\ Goto("L16", "L17")
  /\ UNCHANGED <<mode, level, baud, serial, lastLine, writes, now, iter>>

LoopWriteHigh ==
  /\ Goto("L16", "L17")
  /\ digitalWrite(LED_BUILTIN, HIGH)
  /\ UNCHANGED iter

\* Mutant: line 17 waits for a second.
LoopDelayOn_OneSecond ==
  /\ Goto("L17", "L18")
  /\ delay(1000)
  /\ UNCHANGED iter

LoopDelayOn ==
  /\ Goto("L17", "L18")
  /\ delay(DelayMs)
  /\ UNCHANGED iter

\* Mutant: line 18 prints "LED is on".
LoopPrintOff_SaysOn ==
  /\ Goto("L18", "L19")
  /\ Serial_println(LedOn)
  /\ UNCHANGED iter

LoopPrintOff ==
  /\ Goto("L18", "L19")
  /\ Serial_println(LedOff)
  /\ UNCHANGED iter

\* Mutant: line 19 writes HIGH.
LoopWriteLow_WritesHigh ==
  /\ Goto("L19", "L20")
  /\ digitalWrite(LED_BUILTIN, HIGH)
  /\ UNCHANGED iter

\* Mutant: line 19 writes pin 3.
LoopWriteLow_OnSecondary ==
  /\ Goto("L19", "L20")
  /\ digitalWrite(SecondaryPin, LOW)
  /\ UNCHANGED iter

LoopWriteLow ==
  /\ Goto("L19", "L20")
  /\ digitalWrite(LED_BUILTIN, LOW)
  /\ UNCHANGED iter

LoopDelayOff ==
  /\ Goto("L20", "L21")
  /\ delay(DelayMs)
  /\ UNCHANGED iter

\* Mutant: after loop() returns, setup() is run again.
LoopReturn_RerunsSetup ==
  /\ iter < MaxIter
  /\ Goto("L21", "L5")
  /\ iter' = iter + 1
  /\ UNCHANGED <<mode, level, baud, serial, lastLine, writes, now>>

\* loop() returns and is called again ("runs over and over again forever").
\* In Spec the run is followed for MaxIter iterations.
LoopReturn ==
  /\ iter < MaxIter
  /\ Goto("L21", "L15")
  /\ iter' = iter + 1
  /\ UNCHANGED <<mode, level, baud, serial, lastLine, writes, now>>

\* Mutant: loop() is called MaxIter times only.
LoopAgain_Stops ==
  /\ iter < MaxIter
  /\ Goto("L21", "L15")
  /\ iter' = iter + 1
  /\ UNCHANGED <<mode, level, baud, serial, lastLine, writes, now>>

\* The same return with no limit; past MaxIter the histories stay as they are.
LoopAgain ==
  /\ Goto("L21", "L15")
  /\ iter' = IF Recorded THEN iter + 1 ELSE iter
  /\ UNCHANGED <<mode, level, baud, serial, lastLine, writes, now>>

----------------------------------------------------------------------------
Setup ==
  \/ SetupSerialBegin
  \/ SetupPrintHello
  \/ SetupPinModeBuiltin
  \/ SetupWriteBuiltin
  \/ SetupPinModeSecondary
  \/ SetupWriteSecondary
  \/ SetupReturn

LoopBody ==
  \/ LoopPrintOn
  \/ LoopWriteHigh
  \/ LoopDelayOn
  \/ LoopPrintOff
  \/ LoopWriteLow
  \/ LoopDelayOff

Next == Setup \/ LoopBody \/ LoopReturn

Spec == Init /\ [][Next]_vars

\* One sequential thread on bare hardware: the processor always executes the
\* next statement, and delay() always returns.
LiveNext == Setup \/ LoopBody \/ LoopAgain

LiveSpec == Init /\ [][LiveNext]_vars /\ WF_vars(LiveNext)

----------------------------------------------------------------------------
(* Readings of the recorded histories *)

LineOf(p) ==
  CASE p = "L5" -> 5 [] p = "L6" -> 6 [] p = "L7" -> 7 [] p = "L8" -> 8
    [] p = "L9" -> 9 [] p = "L10" -> 10 [] p = "L11" -> 11
    [] p = "L15" -> 15 [] p = "L16" -> 16 [] p = "L17" -> 17
    [] p = "L18" -> 18 [] p = "L19" -> 19 [] p = "L20" -> 20
    [] p = "L21" -> 21

WritesTo(pin) == SelectSeq(writes, LAMBDA w : w[1] = pin)

Written(pin) == WritesTo(pin) # <<>>

LastWritten(pin) == WritesTo(pin)[Len(WritesTo(pin))][2]

\* The writes that gave the pin a new level: the first one, and every one
\* whose value differs from the write before it.
RECURSIVE Changes(_)
Changes(ws) ==
  IF Len(ws) <= 1 THEN ws
  ELSE LET front == SubSeq(ws, 1, Len(ws) - 1)
           w == ws[Len(ws)]
       IN IF w[2] = front[Len(front)][2] THEN Changes(front)
          ELSE Append(Changes(front), w)

PrimaryChanges == Changes(WritesTo(LED_BUILTIN))

Count(log, line) == Cardinality({i \in 1..Len(log) : log[i] = line})

SetupDone == pc \in LoopPcs \cup {"L11"}

----------------------------------------------------------------------------
\* C1: once setup() has finished the primary pin is HIGH, and the levels it
\* takes are HIGH, LOW, HIGH, LOW, ...: iteration k of loop() brings the
\* number of levels taken to 2k-1 at its write of HIGH (no new level in the
\* first iteration, the pin being HIGH already) and to 2k at its write of LOW.
C1_PrimaryAlternates ==
  LET ch == PrimaryChanges
      n == Len(ch)
  IN /\ \A i \in 1..n : ch[i][2] = (IF i % 2 = 1 THEN HIGH ELSE LOW)
     /\ SetupDone =>
          /\ n >= 1
          /\ level[LED_BUILTIN] = ch[n][2]
          /\ pc = "L11" => n = 1
          /\ pc \in {"L15", "L16"} => n = (IF iter = 1 THEN 1 ELSE 2 * iter - 2)
          /\ pc \in {"L17", "L18", "L19"} => n = 2 * iter - 1
          /\ pc \in {"L20", "L21"} => n = 2 * iter

C1_Witness ==
  /\ pc = "L21"
  /\ iter = 3
  /\ Len(PrimaryChanges) = 6
  /\ level[LED_BUILTIN] = LOW

\* C2: when LED_BUILTIN is not pin 3, pin 3 is written exactly once, by
\* setup(), with HIGH; after setup() it is an output at HIGH, and no step of
\* loop() changes its mode or level.
C2_SecondaryState ==
  LED_BUILTIN # SecondaryPin =>
    /\ Len(WritesTo(SecondaryPin)) = (IF SetupDone THEN 1 ELSE 0)
    /\ SetupDone =>
         /\ LastWritten(SecondaryPin) = HIGH
         /\ mode[SecondaryPin] = OUTPUT
         /\ level[SecondaryPin] = HIGH

C2_LoopFrame ==
  (LED_BUILTIN # SecondaryPin /\ pc \in LoopPcs) =>
    /\ mode'[SecondaryPin] = mode[SecondaryPin]
    /\ level'[SecondaryPin] = level[SecondaryPin]
    /\ WritesTo(SecondaryPin)' = WritesTo(SecondaryPin)

C2_SecondaryConstant == []C2_SecondaryState /\ [][C2_LoopFrame]_vars

C2_Witness ==
  /\ LED_BUILTIN # SecondaryPin
  /\ pc = "L20"
  /\ iter = 2
  /\ level[SecondaryPin] = HIGH
  /\ level[LED_BUILTIN] = LOW

\* C3: the serial output holds exactly one "Hello, World!" line once it has
\* been printed, that line is the first one, and the line most recently
\* printed by loop() is never the greeting.
C3_GreetingOnce ==
  /\ Count(serial, Hello) = (IF pc \in {"L5", "L6"} THEN 0 ELSE 1)
  /\ serial # <<>> => serial[1] = Hello
  /\ (pc \in LoopPcs /\ ~(pc = "L15" /\ iter = 1)) => lastLine # Hello

C3_Witness ==
  /\ pc = "L21"
  /\ iter = 3
  /\ Len(serial) = 7
  /\ Count(serial, Hello) = 1

\* C4: after the greeting the serial output is a prefix of "LED is on",
\* "LED is off", "LED is on", ... with one line per phase and no other text,
\* and each status line is eventually followed by the other one.
C4_StatusPrefix ==
  /\ \A i \in 2..Len(serial) : serial[i] = (IF i % 2 = 0 THEN LedOn ELSE LedOff)
  /\ lastLine \in {"", Hello, LedOn, LedOff}
  /\ (Recorded /\ serial # <<>>) => lastLine = serial[Len(serial)]
  /\ (Recorded /\ pc = "L15") => Len(serial) = 2 * iter - 1
  /\ (Recorded /\ pc \in {"L16", "L17", "L18"}) => Len(serial) = 2 * iter
  /\ (Recorded /\ pc \in {"L19", "L20", "L21"}) => Len(serial) = 2 * iter + 1

C4_StatusAlternates ==
  /\ []C4_StatusPrefix
  /\ (lastLine = LedOn) ~> (lastLine = LedOff)
  /\ (lastLine = LedOff) ~> (lastLine = LedOn)

C4_Witness ==
  /\ Len(serial) = 5
  /\ serial[4] = LedOn
  /\ serial[5] = LedOff
  /\ lastLine = LedOff

C6_RunsForever ==
  /\ [](ENABLED <<LiveNext>>_vars)
  /\ (pc = "L15") ~> (pc = "L21")
  /\ (pc = "L21") ~> (pc = "L15")
  /\ []<><<LoopPrintOn>>_vars
  /\ []<><<LoopWriteHigh>>_vars
  /\ []<><<LoopPrintOff>>_vars
  /\ []<><<LoopWriteLow>>_vars

C6_Witness ==
  /\ ~Recorded
  /\ pc = "L19"
  /\ lastLine = LedOff

\* C7: the level of every pin that has been written equals the value of the
\* latest digitalWrite on it, and a pin's level changes only in a step that
\* is a digitalWrite on that pin.
C7_LevelIsLastWritten ==
  \A p \in UsedPins : Written(p) => level[p] = LastWritten(p)

C7_OnlyWritesChange ==
  \A p \in UsedPins :
    level'[p] # level[p] =>
      /\ Len(writes') = Len(writes) + 1
      /\ writes'[Len(writes')][1] = p
      /\ writes'[Len(writes')][2] = level'[p]

Disagree ==
  \/ lastLine = LedOn /\ level[LED_BUILTIN] = LOW
  \/ lastLine = LedOff /\ level[LED_BUILTIN] = HIGH

C8_LineThenWriteThenDelay ==
  /\ pc = "L16" => lastLine = LedOn
  /\ pc = "L19" => lastLine = LedOff
  /\ pc = "L17" => (lastLine = LedOn /\ level[LED_BUILTIN] = HIGH)
  /\ pc = "L20" => (lastLine = LedOff /\ level[LED_BUILTIN] = LOW)
  /\ Disagree => pc \in {"L16", "L19"}

C8_Witness ==
  /\ pc = "L16"
  /\ lastLine = LedOn
  /\ level[LED_BUILTIN] = LOW

\* C9: when the first "LED is on" is printed both pins are outputs, pin 3 is
\* HIGH and the greeting has been printed; setup() runs its statements in
\* order, once, and none of them runs after loop() has started.
C9_InitDone ==
  (iter = 1 /\ pc \in {"L15", "L16"}) =>
    /\ \A p \in UsedPins : mode[p] = OUTPUT
    /\ level[SecondaryPin] = HIGH
    /\ baud = Baud
    /\ Count(serial, Hello) = 1
    /\ Count(serial, LedOn) = (IF pc = "L15" THEN 0 ELSE 1)

C9_Linear ==
  /\ pc \in LoopPcs => pc' \in LoopPcs
  /\ (pc \in SetupPcs /\ pc' \in SetupPcs) => LineOf(pc') = LineOf(pc) + 1
  /\ (pc \in SetupPcs /\ pc' \in LoopPcs) => (pc = "L11" /\ pc' = "L15")

C9_InitThenLoop ==
  /\ [](C9_InitDone /\ (iter = 0 <=> pc \in SetupPcs))
  /\ [][C9_Linear]_vars

C9_Witness ==
  /\ iter = 1
  /\ pc = "L16"
  /\ serial = <<Hello, LedOn>>
  /\ \A p \in UsedPins : mode[p] = OUTPUT

\* C10: every digitalWrite is on a pin whose mode is OUTPUT at that moment,
\* and a pin's mode, once OUTPUT, stays OUTPUT.
C10_WriteConfigured ==
  Len(writes') > Len(writes) => mode[writes'[Len(writes')][1]] = OUTPUT

C10_ModeStays ==
  \A p \in UsedPins : mode[p] = OUTPUT => mode'[p] = OUTPUT

C10_PendingWriteConfigured ==
  /\ pc \in {"L8", "L16", "L19"} => mode[LED_BUILTIN] = OUTPUT
  /\ pc = "L10" => mode[SecondaryPin] = OUTPUT

C10_ConfiguredBeforeWrite ==
  /\ []C10_PendingWriteConfigured
  /\ [][C10_WriteConfigured /\ C10_ModeStays]_vars

C10_Witness ==
  /\ Len(writes) = 4
  /\ writes[4][1] = LED_BUILTIN
  /\ \A p \in UsedPins : mode[p] = OUTPUT

====
